---- MODULE Spec2Model ----
(***************************************************************************)
(* Neural style transfer driver (nst/train.py): main(), image_loader(),    *)
(* load_vgg19_weights() and train() with its closure, as a state machine.  *)
(*                                                                         *)
(* Numbers.  Tensor elements are integers: 0 and 1 are the ends of the     *)
(* valid pixel range, -1 and 2 are values below and above it.  Losses and  *)
(* gradients are exact integers over a common denominator.  NaN is the     *)
(* IEEE not-a-number of the float tensors; every arithmetic operator below *)
(* propagates it.                                                          *)
(* The extractor (nst.models.vgg19) and the loss classes (nst.losses) are  *)
(* modelled from their specification: an affine feature per activation, a  *)
(* mean-squared-error content loss and a Gram-matrix style loss.           *)
(***************************************************************************)
EXTENDS Integers, Sequences, FiniteSets, TLC

\* ------------------------------------------------------------------ bounds
\* number of elements of an image tensor (the source resizes to 3x512x512)
NPix == 2
\* largest value of --iterations explored
MaxIterations == 2
\* inner iterations of one LBFGS step (max_iter of torch.optim.LBFGS)
max_iter == 2

\* ------------------------------------------------------------------ numbers
NaN == -1000000000

None == <<>>

IsNaN(v) == v = NaN

\* float arithmetic: a NaN operand gives NaN.  The three operations are functions,
\* so that an operand is evaluated once, before the operation is applied.
AddFn[a \in Int, b \in Int] == IF IsNaN(a) \/ IsNaN(b) THEN NaN ELSE a + b

SubFn[a \in Int, b \in Int] == IF IsNaN(a) \/ IsNaN(b) THEN NaN ELSE a - b

MulFn[a \in Int, b \in Int] == IF IsNaN(a) \/ IsNaN(b) THEN NaN ELSE a * b

Add(a, b) == AddFn[a, b]

Sub(a, b) == SubFn[a, b]

Mul(a, b) == MulFn[a, b]

RECURSIVE SumSeq(_)
SumSeq(s) == IF s = <<>> THEN 0 ELSE Add(s[1], SumSeq(Tail(s)))

Pixels == 1..NPix

Zero == 0

One == 1

\* torch.clamp on one element: NaN stays NaN
clamp(v, lo, hi) == IF IsNaN(v) THEN NaN ELSE IF v < lo THEN lo ELSE IF v > hi THEN hi ELSE v

\* the clamp left out
clamp_none(img) == img

\* x.data.clamp_(0, 1): element-wise, in place
clamp_(img) == [p \in Pixels |-> clamp(img[p], Zero, One)]

\* every value a finite tensor element takes in the model: the valid range and
\* one step below and above it
PixelValues == (Zero - 1)..(One + 1)

AllImages == [Pixels -> PixelValues]

NaNImage == [p \in Pixels |-> NaN]

ZeroImage == [p \in Pixels |-> 0]

\* ------------------------------------------------------------------ weights
Stages == 1..5

\* convolutions per stage of the extractor, as the correspondence table lists them
NConv == <<2, 2, 4, 4, 4>>

Kinds == {"weight", "bias"}

\* position of conv{s}.conv{c} in vgg19(pretrained=True).features
FeatureIndex == << <<0, 2>>, <<5, 7>>, <<10, 12, 14, 16>>, <<19, 21, 23, 25>>, <<28, 30, 32, 34>> >>

\* <<s, c, kind>> stands for the extractor name "conv{s}.conv{c}.{kind}"
TableKeys == {<<s, c, k>> : s \in Stages, c \in 1..4, k \in Kinds} \ {<<s, c, k>> : s \in {1, 2}, c \in {3, 4}, k \in Kinds}

\* <<i, kind>> stands for the pretrained name "{i}.{kind}"
matching_keys == [key \in TableKeys |-> <<FeatureIndex[key[1]][key[2]], key[3]>>]

PretrainedKeys == {matching_keys[key] : key \in TableKeys}

\* values of the pretrained tensors: weights 1, biases distinct per stage
PretrainedValue(name) == IF name[2] = "weight" THEN 1 ELSE name[1] \div 5

\* the extractor's state_dict before loading ("randomized weights")
RandomValue == 0

\* ------------------------------------------------------------------ extractor
\* activation a (0-based, as the source indexes it) of stage s for one image;
\* grad_fn is the autograd record of where the tensor came from
FeatureMap(state, img, s, a) == [data |-> [p \in Pixels |-> Add(Mul(state[<<s, a + 1, "weight">>], img[p]), state[<<s, a + 1, "bias">>])], grad_fn |-> <<s, a>>]

\* model(img): stage -> ordered activations; outputs[s][a + 1] is outputs[f"conv{s}"][a]
VGG19(state, img) == [s \in Stages |-> [c \in 1..NConv[s] |-> FeatureMap(state, img, s, c - 1)]]

\* ------------------------------------------------------------------ losses
SqDiff(f, t) == [p \in Pixels |-> Mul(Sub(f[p], t[p]), Sub(f[p], t[p]))]

Squares(f) == [p \in Pixels |-> Mul(f[p], f[p])]

\* Gram matrix of a one-channel feature map (numerator; the normaliser C*H*W is NPix)
Gram(f) == SumSeq(Squares(f))

\* ContentLoss(target)(f): mean squared error, over the common denominator NPix*NPix
ContentLoss(target, f) == Mul(NPix, SumSeq(SqDiff(f.data, target)))

\* StyleLoss(target)(f): squared error of the normalised Gram matrices
StyleLoss(target, f) == Mul(Sub(Gram(f.data), target), Sub(Gram(f.data), target))

\* d ContentLoss(target)(f) / d x[p], through the activation f came from
ContentGrad(state, target, f) == [p \in Pixels |-> Mul(Mul(2 * NPix, Sub(f.data[p], target[p])), state[<<f.grad_fn[1], f.grad_fn[2] + 1, "weight">>])]

\* d StyleLoss(target)(f) / d x[p]
StyleGrad(state, target, f) == [p \in Pixels |-> Mul(Mul(Mul(4, Sub(Gram(f.data), target)), f.data[p]), state[<<f.grad_fn[1], f.grad_fn[2] + 1, "weight">>])]

VecAdd(u, v) == [p \in Pixels |-> Add(u[p], v[p])]

VecScale(k, v) == [p \in Pixels |-> Mul(k, v[p])]

\* ------------------------------------------------------------------ inputs
\* image files: pixel levels, which ToTensor maps onto [0,1]
ContentFiles == {[p \in Pixels |-> One], [p \in Pixels |-> IF p = 1 THEN Zero ELSE One]}

StyleFiles == {[p \in Pixels |-> Zero]}

\* samples of torch.randn: outside the valid range on either side
NoiseImages == {[p \in Pixels |-> Zero - 1], [p \in Pixels |-> IF p = 1 THEN One + 1 ELSE Zero]}

\* --input_image
InputImages == {"content", "style", "random"}

\* <<alpha, beta, style_layer_weight>>; argparse reads "nan" as a float
Weights == {<<1, 3, 2>>, <<2, 0, NaN>>}

\* parameter names of the extractor handed to load_vgg19_weights
ExtractorKeys == {TableKeys, TableKeys \cup {<<5, 5, "weight">>, <<5, 5, "bias">>}, TableKeys \ {<<5, 4, "bias">>}}

\* parameter names of the pretrained source
SourceKeys == {PretrainedKeys, PretrainedKeys \ {<<34, "bias">>}}

\* ------------------------------------------------------------------ state
VARIABLES pc, args, files, tensors, x, model_dict, pretrained_dict, optimizer, content_loss, style_losses, iteration, frame, grad, postfix, output

vars == <<pc, args, files, tensors, x, model_dict, pretrained_dict, optimizer, content_loss, style_losses, iteration, frame, grad, postfix, output>>

\* the closure's local variables, before it has assigned any
EmptyFrame == [outputs |-> None, content_feature_maps |-> None, style_feature_maps |-> None, total_content_loss |-> None, total_style_loss |-> None, loss |-> None]

\* state at the entry of main(), the command line parsed
Init ==
    /\ pc = "image_loader"
    /\ args \in {[iterations |-> n, input_image |-> i, alpha |-> w[1], beta |-> w[2], style_weight |-> w[3]] : n \in 0..MaxIterations, i \in InputImages, w \in Weights}
    /\ files \in [content : ContentFiles, style : StyleFiles]
    /\ tensors = [content |-> None, style |-> None, candidate |-> None]
    /\ x = "unset"
    /\ model_dict \in {[key \in keys |-> RandomValue] : keys \in ExtractorKeys}
    /\ pretrained_dict \in {[name \in names |-> PretrainedValue(name)] : names \in SourceKeys}
    /\ optimizer = None
    /\ content_loss = None
    /\ style_losses = <<>>
    /\ iteration = 0
    /\ frame = EmptyFrame
    /\ grad = ZeroImage
    /\ postfix = None
    /\ output = None

\* ------------------------------------------------------------------ main
\* image_loader: Resize, ToTensor (a level becomes the value in [0,1]), unsqueeze
image_loader(file) == [p \in Pixels |-> file[p]]

\* lines 41-42: content and style images
LoadImages ==
    /\ pc = "image_loader"
    /\ tensors' = [tensors EXCEPT !.content = image_loader(files.content), !.style = image_loader(files.style)]
    /\ pc' = "input_image"
    /\ UNCHANGED <<args, files, x, model_dict, pretrained_dict, optimizer, content_loss, style_losses, iteration, frame, grad, postfix, output>>

\* x = content instead of x = content.clone(): the result names the same tensor
clone_alias(name) == name

\* tensor.clone(): a new tensor holding a copy; the result names the new tensor
clone(name) == "candidate"

\* lines 45-50: the input image
InputImage ==
    /\ pc = "input_image"
    /\ \/ /\ args.input_image = "content"
          /\ x' = clone("content")
          /\ tensors' = [tensors EXCEPT ![x'] = tensors.content]
       \/ /\ args.input_image = "style"
          /\ x' = clone("style")
          /\ tensors' = [tensors EXCEPT ![x'] = tensors.style]
       \/ /\ args.input_image \notin {"content", "style"}
          /\ x' = "candidate"
          /\ \E noise \in {n \in NoiseImages : DOMAIN n = DOMAIN tensors.content} : tensors' = [tensors EXCEPT !.candidate = noise]
    /\ pc' = "load_vgg19_weights"
    /\ UNCHANGED <<args, files, model_dict, pretrained_dict, optimizer, content_loss, style_losses, iteration, frame, grad, postfix, output>>

\* load_vgg19_weights: the returned state_dict, or the exception that ends the run
load_vgg19_weights(model_state, pretrained) ==
    IF \E key \in TableKeys : matching_keys[key] \notin DOMAIN pretrained
    THEN [raised |-> "KeyError", state |-> model_state]
    ELSE IF TableKeys \ DOMAIN model_state # {}
    THEN [raised |-> "RuntimeError", state |-> model_state]
    ELSE [raised |-> "none", state |-> [key \in DOMAIN model_state |-> IF key \in TableKeys THEN pretrained[matching_keys[key]] ELSE model_state[key]]]

\* lines 57-58: the extractor and its pretrained weights
LoadWeights ==
    /\ pc = "load_vgg19_weights"
    /\ LET loaded == load_vgg19_weights(model_dict, pretrained_dict)
       IN /\ model_dict' = loaded.state
          /\ pc' = IF loaded.raised = "none" THEN "optimizer" ELSE "aborted"
    /\ UNCHANGED <<args, files, tensors, x, pretrained_dict, optimizer, content_loss, style_losses, iteration, frame, grad, postfix, output>>

\* the extractor's parameters handed to the optimizer as well
OptimizerParams_all(candidate) == {candidate, "model"}

\* the tensors handed to the optimizer for updating
OptimizerParams(candidate) == {candidate}

\* line 60: optim.LBFGS([x.requires_grad_()])
MakeOptimizer ==
    /\ pc = "optimizer"
    /\ optimizer' = [params |-> OptimizerParams(x), steps |-> 0, n_iter |-> 0, evals |-> 0, loss |-> None]
    /\ pc' = "targets"
    /\ UNCHANGED <<args, files, tensors, x, model_dict, pretrained_dict, content_loss, style_losses, iteration, frame, grad, postfix, output>>

\* lines 63-70: content and style representations, and the losses built on them
Targets ==
    /\ pc = "targets"
    /\ LET content_outputs == VGG19(model_dict, tensors.content)
           style_outputs == VGG19(model_dict, tensors.style)
       IN /\ content_loss' = [target |-> content_outputs[4][1 + 1].data]
          /\ style_losses' = [i \in 1..5 |-> [target |-> Gram(style_outputs[i][0 + 1].data)]]
    /\ pc' = "train"
    /\ UNCHANGED <<args, files, tensors, x, model_dict, pretrained_dict, optimizer, iteration, frame, grad, postfix, output>>

\* range(iterations + 1): one outer iteration too many
NextIteration_extra ==
    /\ pc = "train"
    /\ iteration <= args.iterations
    /\ iteration' = iteration + 1
    /\ optimizer' = [optimizer EXCEPT !.n_iter = 0, !.evals = 0]
    /\ pc' = "zero_grad"
    /\ UNCHANGED <<args, files, tensors, x, model_dict, pretrained_dict, content_loss, style_losses, frame, grad, postfix, output>>

\* line 186: the next outer iteration starts an optimizer step, which first calls the closure
NextIteration ==
    /\ pc = "train"
    /\ iteration < args.iterations
    /\ iteration' = iteration + 1
    /\ optimizer' = [optimizer EXCEPT !.n_iter = 0, !.evals = 0]
    /\ pc' = "zero_grad"
    /\ UNCHANGED <<args, files, tensors, x, model_dict, pretrained_dict, content_loss, style_losses, frame, grad, postfix, output>>

\* the closure without optimizer.zero_grad()
ZeroGrad_skipped ==
    /\ pc = "zero_grad"
    /\ pc' = "clamp"
    /\ UNCHANGED <<args, files, tensors, x, model_dict, pretrained_dict, optimizer, content_loss, style_losses, iteration, frame, grad, postfix, output>>

\* line 190: optimizer.zero_grad()
ZeroGrad ==
    /\ pc = "zero_grad"
    /\ grad' = ZeroImage
    /\ pc' = "clamp"
    /\ UNCHANGED <<args, files, tensors, x, model_dict, pretrained_dict, optimizer, content_loss, style_losses, iteration, frame, postfix, output>>

\* line 193: x.data.clamp_(0, 1)
Clamp ==
    /\ pc = "clamp"
    /\ tensors' = [tensors EXCEPT ![x] = clamp_(tensors[x])]
    /\ pc' = "forward"
    /\ UNCHANGED <<args, files, x, model_dict, pretrained_dict, optimizer, content_loss, style_losses, iteration, frame, grad, postfix, output>>

\* line 194: outputs = model(x)
Forward ==
    /\ pc = "forward"
    /\ frame' = [frame EXCEPT !.outputs = VGG19(model_dict, tensors[x])]
    /\ pc' = "feature_maps"
    /\ UNCHANGED <<args, files, tensors, x, model_dict, pretrained_dict, optimizer, content_loss, style_losses, iteration, grad, postfix, output>>

\* line 197: the content representation of the input
ContentFeatureMaps(outputs) == outputs[4][1 + 1]

\* range(1, 5): the last stage dropped
StyleFeatureMaps_short(outputs) == [i \in 1..4 |-> outputs[i][0 + 1]]

\* lines 198-200: the style representations of the input
StyleFeatureMaps(outputs) == [i \in 1..5 |-> outputs[i][0 + 1]]

\* lines 197-200
FeatureMaps ==
    /\ pc = "feature_maps"
    /\ frame' = [frame EXCEPT !.content_feature_maps = ContentFeatureMaps(frame.outputs), !.style_feature_maps = StyleFeatureMaps(frame.outputs)]
    /\ pc' = "content_loss"
    /\ UNCHANGED <<args, files, tensors, x, model_dict, pretrained_dict, optimizer, content_loss, style_losses, iteration, grad, postfix, output>>

\* line 203
TotalContentLoss ==
    /\ pc = "content_loss"
    /\ frame' = [frame EXCEPT !.total_content_loss = ContentLoss(content_loss.target, frame.content_feature_maps)]
    /\ pc' = "style_loss"
    /\ UNCHANGED <<args, files, tensors, x, model_dict, pretrained_dict, optimizer, content_loss, style_losses, iteration, grad, postfix, output>>

\* zip(style_feature_maps, style_losses): as many pairs as the shorter list
Zip(maps, losses) == [i \in 1..(IF Len(maps) < Len(losses) THEN Len(maps) ELSE Len(losses)) |-> <<maps[i], losses[i]>>]

\* lines 205-207: total_style_loss, from 0, += style_weight * style_loss(feature_map)
StyleSum(pairs, style_weight, n) ==
    LET total[k \in 0..n] == IF k = 0 THEN 0 ELSE Add(total[k - 1], Mul(style_weight, StyleLoss(pairs[k][2].target, pairs[k][1])))
    IN total[n]

\* lines 205-207
TotalStyleLoss ==
    /\ pc = "style_loss"
    /\ LET pairs == Zip(frame.style_feature_maps, style_losses)
       IN frame' = [frame EXCEPT !.total_style_loss = StyleSum(pairs, args.style_weight, Len(pairs))]
    /\ pc' = "loss"
    /\ UNCHANGED <<args, files, tensors, x, model_dict, pretrained_dict, optimizer, content_loss, style_losses, iteration, grad, postfix, output>>

\* the two weights exchanged
TotalLoss_swapped(alpha, total_content_loss, beta, total_style_loss) == Add(Mul(beta, total_content_loss), Mul(alpha, total_style_loss))

\* line 210
TotalLoss(alpha, total_content_loss, beta, total_style_loss) == Add(Mul(alpha, total_content_loss), Mul(beta, total_style_loss))

\* line 210
Loss ==
    /\ pc = "loss"
    /\ frame' = [frame EXCEPT !.loss = TotalLoss(args.alpha, frame.total_content_loss, args.beta, frame.total_style_loss)]
    /\ pc' = "backward"
    /\ UNCHANGED <<args, files, tensors, x, model_dict, pretrained_dict, optimizer, content_loss, style_losses, iteration, grad, postfix, output>>

\* the gradient autograd computes for loss.backward(): d loss / d x through the
\* feature maps the losses were evaluated on
StyleGradSum(state, pairs, style_weight, n) ==
    LET total[k \in 0..n] == IF k = 0 THEN ZeroImage ELSE VecAdd(total[k - 1], VecScale(style_weight, StyleGrad(state, pairs[k][2].target, pairs[k][1])))
    IN total[n]

LossGradient ==
    LET pairs == Zip(frame.style_feature_maps, style_losses)
    IN VecAdd(VecScale(args.alpha, ContentGrad(model_dict, content_loss.target, frame.content_feature_maps)),
              VecScale(args.beta, StyleGradSum(model_dict, pairs, args.style_weight, Len(pairs))))

\* line 211: loss.backward() adds the gradient to x.grad
Backward ==
    /\ pc = "backward"
    /\ grad' = VecAdd(grad, LossGradient)
    /\ pc' = "set_postfix"
    /\ UNCHANGED <<args, files, tensors, x, model_dict, pretrained_dict, optimizer, content_loss, style_losses, iteration, frame, postfix, output>>

\* lines 213-219: report the three losses and return the loss to the optimizer
Return ==
    /\ pc = "set_postfix"
    /\ postfix' = [content_loss |-> frame.total_content_loss, style_loss |-> frame.total_style_loss, total_loss |-> frame.loss]
    /\ optimizer' = [optimizer EXCEPT !.loss = frame.loss, !.evals = @ + 1]
    /\ frame' = EmptyFrame
    /\ pc' = "step"
    /\ UNCHANGED <<args, files, tensors, x, model_dict, pretrained_dict, content_loss, style_losses, iteration, grad, output>>

\* the values an LBFGS update x + t*d can leave in a tensor: any, for a finite
\* gradient; NaN everywhere for a NaN gradient
Updated(g) == IF \E p \in Pixels : IsNaN(g[p]) THEN {NaNImage} ELSE AllImages

\* line 221, inside optimizer.step: one inner iteration moves every tensor the
\* optimizer holds; the closure is evaluated again unless it was the last one
StepUpdate ==
    /\ pc = "step"
    /\ optimizer.n_iter < max_iter
    /\ grad # ZeroImage
    /\ \E new \in Updated(grad) : tensors' = [name \in DOMAIN tensors |-> IF name \in optimizer.params THEN new ELSE tensors[name]]
    /\ model_dict' = IF "model" \in optimizer.params THEN [key \in DOMAIN model_dict |-> Add(model_dict[key], 1)] ELSE model_dict
    /\ IF optimizer.n_iter + 1 # max_iter
       THEN /\ optimizer' = [optimizer EXCEPT !.n_iter = @ + 1]
            /\ pc' = "zero_grad"
       ELSE /\ optimizer' = [optimizer EXCEPT !.n_iter = @ + 1, !.steps = @ + 1]
            /\ pc' = "train"
    /\ UNCHANGED <<args, files, x, pretrained_dict, content_loss, style_losses, iteration, frame, grad, postfix, output>>

\* line 221, inside optimizer.step: the step ends after a closure evaluation
\* (zero gradient, no progress, evaluation budget)
StepReturn ==
    /\ pc = "step"
    /\ optimizer' = [optimizer EXCEPT !.steps = @ + 1]
    /\ pc' = "train"
    /\ UNCHANGED <<args, files, tensors, x, model_dict, pretrained_dict, content_loss, style_losses, iteration, frame, grad, postfix, output>>

\* train() returning x without the final correction
FinalClamp_skipped ==
    /\ pc = "train"
    /\ iteration >= args.iterations
    /\ pc' = "imsave"
    /\ UNCHANGED <<args, files, tensors, x, model_dict, pretrained_dict, optimizer, content_loss, style_losses, iteration, frame, grad, postfix, output>>

\* lines 224-225: the loop is exhausted; final correction and return
FinalClamp ==
    /\ pc = "train"
    /\ iteration >= args.iterations
    /\ tensors' = [tensors EXCEPT ![x] = clamp_(tensors[x])]
    /\ pc' = "imsave"
    /\ UNCHANGED <<args, files, x, model_dict, pretrained_dict, optimizer, content_loss, style_losses, iteration, frame, grad, postfix, output>>

\* lines 76-79: the returned image is written to --output_dir
Save ==
    /\ pc = "imsave"
    /\ output' = tensors[x]
    /\ pc' = "done"
    /\ UNCHANGED <<args, files, tensors, x, model_dict, pretrained_dict, optimizer, content_loss, style_losses, iteration, frame, grad, postfix>>

Next ==
    \/ LoadImages
    \/ InputImage
    \/ LoadWeights
    \/ MakeOptimizer
    \/ Targets
    \/ NextIteration
    \/ ZeroGrad
    \/ Clamp
    \/ Forward
    \/ FeatureMaps
    \/ TotalContentLoss
    \/ TotalStyleLoss
    \/ Loss
    \/ Backward
    \/ Return
    \/ StepUpdate
    \/ StepReturn
    \/ FinalClamp
    \/ Save

Spec == Init /\ [][Next]_vars

\* ------------------------------------------------------------------ properties
ClosurePcs == {"zero_grad", "clamp", "forward", "feature_maps", "content_loss", "style_loss", "loss", "backward", "set_postfix"}

\* positions of train(): the loop head, the closure, the optimizer between evaluations
TrainPcs == ClosurePcs \cup {"train", "step"}

\* every element is in [0,1]
InUnitRange(img) == \A p \in Pixels : ~IsNaN(img[p]) /\ Zero <= img[p] /\ img[p] <= One

\* no element is below 0 or above 1 (a NaN element is neither)
NoneOutside(img) == \A p \in Pixels : IsNaN(img[p]) \/ (Zero <= img[p] /\ img[p] <= One)

FiniteWeights == ~IsNaN(args.alpha) /\ ~IsNaN(args.beta) /\ ~IsNaN(args.style_weight)

\* C1, as stated: after every closure evaluation and after every optimizer.step
\* has returned, every element of the candidate is in [0,1] (checked on the
\* runs whose weights are finite).
C1_InRangeAfterEveryStep ==
    (FiniteWeights /\ (pc = "step" \/ (pc = "train" /\ iteration > 0))) => InUnitRange(tensors[x])

\* C1, amended: from the clamp of a closure evaluation until that evaluation has
\* returned, and once train() has applied its final clamp, no element of the
\* candidate is below 0 or above 1: every element is in [0,1], unless a NaN
\* loss (here: a NaN weight) has made it NaN, which the clamp leaves as it is.
\* (Between evaluations the optimizer's update is not clamped.)
C1_InRangeAfterClamp ==
    (pc \in {"forward", "feature_maps", "content_loss", "style_loss", "loss", "backward", "set_postfix", "step", "imsave", "done"})
        => (NoneOutside(tensors[x]) /\ (FiniteWeights => InUnitRange(tensors[x])))

\* a closure evaluation that followed an optimizer update has returned
C1_Witness == pc = "step" /\ optimizer.n_iter >= 1 /\ optimizer.evals >= 2 /\ InUnitRange(tensors[x])

\* C2: with iterations = 0, the candidate reaches train() as it was created,
\* and train() does one thing: it clamps that candidate and returns it; the
\* closure is never evaluated, the optimizer takes no step, and the clamped
\* image is what is handed on unchanged.
C2_ZeroIterations ==
    /\ [][(args.iterations = 0 /\ pc \in {"load_vgg19_weights", "optimizer", "targets"}) => UNCHANGED <<tensors, x>>]_vars
    /\ [][(args.iterations = 0 /\ pc = "train") => (pc' = "imsave" /\ tensors'[x] = clamp_(tensors[x]) /\ UNCHANGED <<optimizer, grad, postfix, frame, iteration>>)]_vars
    /\ [][(args.iterations = 0 /\ pc = "imsave") => (output' = tensors[x] /\ UNCHANGED tensors)]_vars
    /\ []((args.iterations = 0 /\ pc \in {"train", "imsave", "done"}) => (optimizer.evals = 0 /\ optimizer.steps = 0 /\ iteration = 0 /\ grad = ZeroImage))
    /\ []((args.iterations = 0 /\ pc \in {"imsave", "done"}) => InUnitRange(tensors[x]))

\* train() has returned a zero-iteration run that started from out-of-range noise
C2_Witness == args.iterations = 0 /\ args.input_image = "random" /\ pc = "imsave" /\ optimizer.evals = 0

\* C3, as stated: an extractor with a parameter the correspondence table does
\* not map never gets past load_vgg19_weights: the run is aborted before the
\* first forward pass.
C3_UnmappedParameterRaises ==
    (\E key \in DOMAIN model_dict : key \notin TableKeys) => pc \in {"image_loader", "input_image", "load_vgg19_weights", "aborted"}

\* the variant of train(): outer steps left, inner iterations left, position in the closure
ClosureRank == [zero_grad |-> 9, clamp |-> 8, forward |-> 7, feature_maps |-> 6, content_loss |-> 5, style_loss |-> 4, loss |-> 3, backward |-> 2, set_postfix |-> 1, step |-> 0]

StepSpan == 10 * max_iter + 20

Variant ==
    IF pc = "train" THEN (args.iterations - optimizer.steps) * StepSpan + 1
    ELSE IF pc \in DOMAIN ClosureRank THEN (args.iterations - optimizer.steps - 1) * StepSpan + 10 * (max_iter - optimizer.n_iter) + ClosureRank[pc] + 2
    ELSE 0

\* C4: train() performs exactly `iterations` outer optimizer steps, one at a
\* time, each evaluating the closure at least once, then clamps and returns; it
\* is never stuck before it returns and every step it takes lowers a variant
\* that cannot go below 0, so it always returns.
C4_LoopTerminates ==
    /\ [](pc \in TrainPcs => (ENABLED Next /\ Variant >= 0))
    /\ [][(pc \in TrainPcs) => (Variant' < Variant)]_vars
    /\ [](pc \in TrainPcs => (0 <= optimizer.steps /\ optimizer.steps <= iteration /\ iteration <= args.iterations))
    /\ []((pc \in ClosurePcs \cup {"step"}) => optimizer.steps = iteration - 1)
    /\ []((pc = "train") => optimizer.steps = iteration)
    /\ []((pc = "train" /\ iteration > 0) => optimizer.evals >= 1)
    /\ [][(pc = "train" /\ pc' = "imsave") => (iteration = args.iterations /\ optimizer.steps = args.iterations /\ tensors'[x] = clamp_(tensors[x]))]_vars
    /\ []((pc \in {"imsave", "done"}) => optimizer.steps = args.iterations)

\* train() has returned after the largest number of outer steps
C4_Witness == pc = "imsave" /\ args.iterations = MaxIterations /\ optimizer.steps = MaxIterations

\* C5: a closure evaluation is entered at the gradient reset and runs reset,
\* clamp, forward pass, content loss, style losses, total loss, gradient, return
\* in that order; the forward pass reads a candidate with no value below 0 or
\* above 1 and its outputs are those of that clamped candidate; the gradient left
\* by the evaluation is the gradient of this evaluation's loss alone.
C5_ClosureOrder ==
    /\ [][(pc' \in ClosurePcs /\ pc \notin ClosurePcs) => pc' = "zero_grad"]_vars
    /\ [][(pc = "zero_grad") => (pc' = "clamp" /\ grad' = ZeroImage)]_vars
    /\ [][(pc = "clamp") => (pc' = "forward" /\ tensors'[x] = clamp_(tensors[x]))]_vars
    /\ [][(pc = "forward") => (pc' = "feature_maps" /\ NoneOutside(tensors[x]) /\ frame'.outputs = VGG19(model_dict, clamp_(tensors[x])))]_vars
    /\ [][(pc = "feature_maps") => pc' = "content_loss"]_vars
    /\ [][(pc = "content_loss") => pc' = "style_loss"]_vars
    /\ [][(pc = "style_loss") => pc' = "loss"]_vars
    /\ [][(pc = "loss") => (pc' = "backward" /\ grad = ZeroImage)]_vars
    /\ [][(pc = "backward") => (pc' = "set_postfix" /\ grad' = LossGradient)]_vars
    /\ [][(pc = "set_postfix") => (pc' = "step" /\ optimizer'.loss = frame.loss)]_vars
    /\ [][(pc \in ClosurePcs \ {"clamp"}) => tensors' = tensors]_vars

\* a second evaluation of the closure has computed its gradient, the first having left a non-zero one
C5_Witness == pc = "set_postfix" /\ optimizer.evals >= 1 /\ grad # ZeroImage /\ FiniteWeights

\* the total loss of a candidate, from the candidate alone
ExpectedContent(img) == ContentLoss(content_loss.target, FeatureMap(model_dict, img, 4, 1))

ExpectedStyle(img) ==
    LET total[l \in 0..5] == IF l = 0 THEN 0 ELSE Add(total[l - 1], Mul(args.style_weight, StyleLoss(style_losses[l].target, FeatureMap(model_dict, img, l, 0))))
    IN total[5]

\* C6: the loss a closure evaluation returns to the optimizer is
\* alpha * contentLoss + beta * sum over the five style layers of
\* style_weight * styleLoss_l of the candidate it evaluated, and the three
\* reported values are the content loss, that sum and that total.
C6_WeightedLoss ==
    (pc = "step") =>
        /\ optimizer.loss = Add(Mul(args.alpha, ExpectedContent(tensors[x])), Mul(args.beta, ExpectedStyle(tensors[x])))
        /\ postfix.content_loss = ExpectedContent(tensors[x])
        /\ postfix.style_loss = ExpectedStyle(tensors[x])
        /\ postfix.total_loss = optimizer.loss
        /\ postfix.total_loss = Add(Mul(args.alpha, postfix.content_loss), Mul(args.beta, postfix.style_loss))

\* an evaluation has returned a finite loss with non-zero content and style parts
C6_Witness == pc = "step" /\ FiniteWeights /\ postfix.content_loss > 0 /\ postfix.style_loss > 0 /\ postfix.content_loss # postfix.style_loss

\* positions after initialization: train(), then the hand-over of the result
AfterInit == TrainPcs \cup {"imsave", "done"}

\* C7: once the targets are built, no step changes the extractor's parameters,
\* the content target or the style targets, and the optimizer holds the
\* candidate and nothing else.
C7_OnlyCandidateChanges ==
    /\ [][(pc \in AfterInit) => (model_dict' = model_dict /\ content_loss' = content_loss /\ style_losses' = style_losses /\ pretrained_dict' = pretrained_dict)]_vars
    /\ [](pc \in AfterInit \cup {"targets"} => optimizer.params = {x})
    /\ [](pc \in AfterInit => model_dict = load_vgg19_weights(model_dict, pretrained_dict).state)

\* an optimizer update has changed the candidate
C7_Witness == pc = "zero_grad" /\ optimizer.n_iter >= 1 /\ tensors[x] # clamp_(tensors[x])

\* C8, as stated: a run whose last closure evaluation had a non-finite loss has
\* not returned from train() and has written no output.
C8_NonFiniteLossAborts ==
    (pc \in {"imsave", "done"} /\ iteration > 0) => ~IsNaN(postfix.total_loss)

\* C9: the content loss is evaluated on activation 1 of stage 4 of the
\* candidate against the target taken from activation 1 of stage 4 of the
\* content image; the style losses are five pairs, the l-th pairing activation 0
\* of stage l of the candidate with the Gram target of activation 0 of stage l
\* of the style image; the two totals are computed from exactly these pairs.
\* (Each part is checked where the closure uses it.)
C9_LayersPaired ==
    /\ (pc = "content_loss") => content_loss.target = FeatureMap(model_dict, tensors.content, 4, 1).data
    /\ (pc = "style_loss") => (Len(style_losses) = 5 /\ \A l \in 1..5 : style_losses[l].target = Gram(FeatureMap(model_dict, tensors.style, l, 0).data))
    /\ (pc \in {"content_loss", "style_loss"}) =>
        /\ frame.content_feature_maps = FeatureMap(model_dict, tensors[x], 4, 1)
        /\ Len(Zip(frame.style_feature_maps, style_losses)) = 5
        /\ \A l \in 1..5 : Zip(frame.style_feature_maps, style_losses)[l] = <<FeatureMap(model_dict, tensors[x], l, 0), style_losses[l]>>
    /\ (pc = "style_loss") => frame.total_content_loss = ExpectedContent(tensors[x])
    /\ (pc = "loss") => frame.total_style_loss = ExpectedStyle(tensors[x])

\* the style losses of a candidate that differs from the style image are being summed
C9_Witness == pc = "loss" /\ FiniteWeights /\ frame.total_style_loss > 0 /\ frame.total_content_loss > 0

\* the image --input_image asks for
InitialCandidates == IF args.input_image = "content" THEN {image_loader(files.content)} ELSE IF args.input_image = "style" THEN {image_loader(files.style)} ELSE {n \in NoiseImages : DOMAIN n = DOMAIN image_loader(files.content)}

\* C10: the candidate is a tensor of its own, created as a copy of the content
\* image, a copy of the style image or noise of the content image's shape; the
\* content and style images keep the values they were loaded with through every
\* clamp and update, and the targets are those of these unmodified images
\* (checked at every loop head and at the return of train()).
C10_CandidateIndependent ==
    /\ (pc \notin {"image_loader", "input_image"}) => (x \notin {"content", "style"} /\ tensors.content = image_loader(files.content) /\ tensors.style = image_loader(files.style))
    /\ (pc = "load_vgg19_weights") => tensors[x] \in InitialCandidates
    /\ (pc \in {"train", "imsave"}) => content_loss.target = FeatureMap(model_dict, image_loader(files.content), 4, 1).data
    /\ (pc \in {"train", "imsave"}) => \A l \in 1..5 : style_losses[l].target = Gram(FeatureMap(model_dict, image_loader(files.style), l, 0).data)

\* a candidate copied from the content image has been moved away from it
C10_Witness == pc \in AfterInit /\ args.input_image = "content" /\ tensors[x] # tensors.content /\ tensors.content = image_loader(files.content)

====
